---- MODULE Spec2Model ----
(***************************************************************************)
(* Verification model of the dual-source audio capture engine of           *)
(* contextor.desktop.                                                      *)
(*                                                                         *)
(* Part 1 models AudioService (src/src/helpers/audioService.ts), the       *)
(* main-process capture session controller, as it is driven by the IPC     *)
(* handlers 'start-combined-audio-recording' and                           *)
(* 'stop-combined-audio-recording'.                                        *)
(*                                                                         *)
(* Execution model.  The main process is a single-threaded event loop.     *)
(* A handler runs without interruption until it suspends at an await whose *)
(* promise is settled by a later event (a child process closing); awaits   *)
(* on promises that are already settled resume in the microtask queue,     *)
(* which is drained before the next event is dispatched.  The variable     *)
(* turn names the call that currently owns the event loop (0: the loop is  *)
(* idle and the next event may be dispatched).  The steps of one call are  *)
(* separate actions so that their order is visible, and only events        *)
(* (turn = 0) interleave with other calls.                                 *)
(***************************************************************************)
EXTENDS Integers, Sequences, FiniteSets, TLC

\* ------------------------------------------------------------------ bounds
MaxCalls == 3
MaxChunks == 2

\* ------------------------------------------------------- program constants
sampleRate == 16000
channels == 1
bitsPerSample == 16
headerSize == 44

\* byte lengths of the microphone chunks the recorder delivers
ChunkSizes == {7978, 8000}

\* a Buffer | null value: null, or a container of header and payload bytes
Null == [isNull |-> TRUE, header |-> 0, payload |-> <<>>]

Calls == 1..MaxCalls
Insts == 1..MaxCalls

VARIABLES
  isRecording,            \* AudioService.isRecording
  recordingInstance,      \* AudioService.recordingInstance: 0 (null) or an instance
  microphoneAudioChunks,  \* AudioService.microphoneAudioChunks
  systemAudioChunks,      \* AudioService.systemAudioChunks
  audioChunks,            \* AudioService.audioChunks
  systemAudioStream,      \* AudioService.systemAudioStream is non-null
  enableSystemAudioRecording,
  enableEchoCancellation,
  micRunning,             \* recorder instances started and not stopped
  nextInst,               \* number of recorder instances created so far
  nData,                  \* number of 'data' events delivered so far
  calls,                  \* the IPC calls: position and locals of each
  nCalls,                 \* number of IPC calls issued so far
  turn,                   \* the call that owns the event loop, 0 if none
  fin,                    \* inputs and results of the finalization functions
  mix,                    \* inputs and results of the sample-level mixers
  conv,                   \* one stopRecording call and its external converter
  plat,                   \* PlatformAudioService and its dump process
  rech                    \* a stream handler that cuts its input into chunks

svcVars == <<isRecording, recordingInstance, microphoneAudioChunks,
             systemAudioChunks, audioChunks, systemAudioStream,
             enableSystemAudioRecording, enableEchoCancellation,
             micRunning, nextInst, nData, calls, nCalls, turn>>

pureVars == <<fin, mix, conv, plat, rech>>

vars == <<svcVars, pureVars>>

\* ---------------------------------------------------------------- helpers
RECURSIVE SumLen(_)
SumLen(s) == IF s = <<>> THEN 0 ELSE Head(s).len + SumLen(Tail(s))

\* a container: the 44-byte header followed by the payload
Container(payload) == [isNull |-> FALSE, header |-> headerSize, payload |-> payload]
BufLen(b) == IF b = Null THEN 0 ELSE b.header + SumLen(b.payload)

\* what a call has returned: "none" (not yet), "ok", "error", or "value" for
\* a stopRecording result, which is then held in out (null or a container)
Tag(b) == IF b = Null THEN "null" ELSE "buffer"

\* a call: kind and position, the locals of stopRecording (raw, micBuf,
\* sysBuf), whether stopRecording was called by startRecording (nested), the
\* value it returned (stopRes, out), the handler's answer (res) and, for a
\* start that found a recording active, the recorder instance it found
\* (prior); made is the recorder instance a start created, and idleStop
\* whether stopRecording took its "No active recording to stop" return
NoCall == [kind |-> "none", pc |-> "idle", nested |-> FALSE, raw |-> <<>>,
           micBuf |-> Null, sysBuf |-> Null, stopRes |-> "none", out |-> Null,
           res |-> "none", prior |-> 0, made |-> 0, idleStop |-> FALSE]

svcInit ==
  /\ isRecording = FALSE
  /\ recordingInstance = 0
  /\ microphoneAudioChunks = <<>>
  /\ systemAudioChunks = <<>>
  /\ audioChunks = <<>>
  /\ systemAudioStream = FALSE
  /\ enableSystemAudioRecording = TRUE
  /\ enableEchoCancellation = TRUE
  /\ micRunning = {}
  /\ nextInst = 0
  /\ nData = 0
  /\ calls = [c \in Calls |-> NoCall]
  /\ nCalls = 0
  /\ turn = 0

\* ------------------------------------------------- pure parts of the stop
Max(a, b) == IF a >= b THEN a ELSE b

\* stopRecording, line 143: sampleRate * channels * bitsPerSample / 8 * 0.5
minBytes == ((sampleRate * channels * bitsPerSample) \div 8) \div 2

\* number of 16-bit samples in a container's payload:
\* extractPcmFromWav (slice(44)) followed by new Int16Array(.., length / 2)
pcmSamples(b) == SumLen(b.payload) \div 2

\* the container convertPcmToWav builds from the mixers' output, which has
\* max(A, B) samples (see the sample-level mixers below)
MixedContainer(mic, sys) ==
  Container(<<[src |-> "mix", inst |-> 0,
               len |-> 2 * Max(pcmSamples(mic), pcmSamples(sys))]>>)

\* variants used to test the claims about combineAudioBuffers: one whose
\* catch returns null, one that runs the mix even when a source is null
combineAudioBuffers_NoFallback(mic, sys, mixThrows) ==
  IF mic = Null /\ sys = Null THEN Null
  ELSE IF mic = Null THEN sys
  ELSE IF sys = Null THEN mic
  ELSE IF mixThrows THEN Null
  ELSE MixedContainer(mic, sys)

combineAudioBuffers_AlwaysMixes(mic, sys, mixThrows) ==
  IF mic = Null /\ sys = Null THEN Null
  ELSE IF mixThrows THEN mic
  ELSE MixedContainer(mic, sys)

\* combineAudioBuffers; mixThrows: the echo/mix step throws inside the try
combineAudioBuffers(mic, sys, mixThrows) ==
  IF mic = Null /\ sys = Null THEN Null
  ELSE IF mic = Null THEN sys
  ELSE IF sys = Null THEN mic
  ELSE IF mixThrows THEN mic
  ELSE MixedContainer(mic, sys)

\* which return of combineAudioBuffers is taken
combineBranch(mic, sys, mixThrows) ==
  IF mic = Null /\ sys = Null THEN "none"
  ELSE IF mic = Null THEN "system"
  ELSE IF sys = Null THEN "microphone"
  ELSE IF mixThrows THEN "fallback"
  ELSE "mixed"

\* stopRecording, lines 137-150: the empty check and the minimum-duration
\* check on the combined buffer
durationGate(combinedBuffer) ==
  IF combinedBuffer = Null \/ BufLen(combinedBuffer) = 0 THEN Null
  ELSE IF BufLen(combinedBuffer) < minBytes THEN Null
  ELSE combinedBuffer

\* stopRecording, lines 129-150: the value returned once both stops are done
StopResult(mic, sys, mixThrows) ==
  IF mic = Null /\ sys = Null THEN Null
  ELSE durationGate(combineAudioBuffers(mic, sys, mixThrows))

\* ------------------------------------------------------------ IPC handlers
Set(c, f) == calls' = [calls EXCEPT ![c] = f]

UnchangedService ==
  UNCHANGED <<isRecording, recordingInstance, microphoneAudioChunks,
              systemAudioChunks, audioChunks, systemAudioStream,
              enableSystemAudioRecording, enableEchoCancellation,
              micRunning, nextInst, nData, pureVars>>

\* a call that has returned keeps its answer; its locals are dead
Done(f, r) == [NoCall EXCEPT !.kind = f.kind, !.pc = "done", !.res = r,
                             !.made = f.made, !.idleStop = f.idleStop]

\* ipcMain.handle('start-combined-audio-recording'): the event in which
\* `await this.checkAudioPermissions()` has settled (until then the handler
\* has touched nothing).  On rejection the handler answers {success: false};
\* otherwise it calls audioService.startRecording()
IpcStart(c, permOk) ==
  /\ turn = 0
  /\ nCalls < MaxCalls
  /\ c = nCalls + 1
  /\ nCalls' = c
  /\ IF permOk
       THEN /\ Set(c, [calls[c] EXCEPT !.kind = "start", !.pc = "start_enter"])
            /\ turn' = c
       ELSE /\ Set(c, Done([calls[c] EXCEPT !.kind = "start"], "error"))
            /\ UNCHANGED turn
  /\ UnchangedService

\* a start that does not wait for the stop of the active recording
StartEnter_NoAwait(c) ==
  /\ turn = c
  /\ calls[c].pc = "start_enter"
  /\ IF isRecording
       THEN Set(c, [calls[c] EXCEPT !.pc = "start_reset", !.nested = TRUE,
                                    !.prior = recordingInstance])
       ELSE Set(c, [calls[c] EXCEPT !.pc = "start_reset"])
  /\ UNCHANGED <<turn, nCalls>>
  /\ UnchangedService

\* startRecording, lines 80-83: an active recording is stopped first
StartEnter(c) ==
  /\ turn = c
  /\ calls[c].pc = "start_enter"
  /\ IF isRecording
       THEN Set(c, [calls[c] EXCEPT !.pc = "stop_enter", !.nested = TRUE,
                                    !.prior = recordingInstance])
       ELSE Set(c, [calls[c] EXCEPT !.pc = "start_reset"])
  /\ UNCHANGED <<turn, nCalls>>
  /\ UnchangedService

\* startRecording, lines 85-95: the buffers are reset, isRecording is set and
\* startMicrophoneRecording suspends at `await this.checkSoxAvailability()`
StartReset(c) ==
  /\ turn = c
  /\ calls[c].pc = "start_reset"
  /\ audioChunks' = <<>>
  /\ microphoneAudioChunks' = <<>>
  /\ systemAudioChunks' = <<>>
  /\ isRecording' = TRUE
  /\ Set(c, [calls[c] EXCEPT !.pc = "soxcheck"])
  /\ turn' = 0
  /\ UNCHANGED <<recordingInstance, systemAudioStream, nCalls,
                 enableSystemAudioRecording, enableEchoCancellation,
                 micRunning, nextInst, nData, pureVars>>

\* the failure of a start: startRecording's catch (lines 105-109) and the
\* handler's catch (lines 1194-1201)
\* a failed start that leaves isRecording set
StartFailed_KeepsFlag(c, inst) ==
  /\ UNCHANGED isRecording
  /\ Set(c, Done([calls[c] EXCEPT !.made = inst], "error"))
  /\ turn' = 0

\* inst: the recorder instance the failed start had created, 0 if none
StartFailedWith(c, inst) ==
  /\ isRecording' = FALSE
  /\ Set(c, Done([calls[c] EXCEPT !.made = inst], "error"))
  /\ turn' = 0

StartFailed(c) == StartFailedWith(c, 0)

\* checkSoxAvailability settles (lines 230-250).  ok: startMicrophoneRecording
\* goes on to create the recorder; otherwise it rejects and the start fails
SoxCheckSettled(c, ok) ==
  /\ turn = 0
  /\ calls[c].pc = "soxcheck"
  /\ IF ok
       THEN /\ Set(c, [calls[c] EXCEPT !.pc = "start_mic"])
            /\ turn' = c
            /\ UNCHANGED isRecording
       ELSE StartFailed(c)
  /\ UNCHANGED <<recordingInstance, microphoneAudioChunks, systemAudioChunks,
                 audioChunks, systemAudioStream, enableSystemAudioRecording,
                 enableEchoCancellation, micRunning, nextInst, nData, nCalls, pureVars>>

\* startMicrophoneRecording, lines 175-227.  outcome:
\*   "ok"           the recorder is created, its listeners attached, started
\*   "recordThrows" recordModule.record() throws: nothing is assigned
\*   "startThrows"  attaching the listeners or start() throws after the
\*                  instance has been assigned to this.recordingInstance
StartMic(c, outcome) ==
  /\ turn = c
  /\ calls[c].pc = "start_mic"
  /\ CASE outcome = "ok" ->
            /\ nextInst' = nextInst + 1
            /\ recordingInstance' = nextInst + 1
            /\ micRunning' = micRunning \cup {nextInst + 1}
            /\ Set(c, [calls[c] EXCEPT !.pc = "start_sys", !.made = nextInst + 1])
            /\ UNCHANGED <<turn, isRecording>>
       [] outcome = "recordThrows" ->
            /\ StartFailed(c)
            /\ UNCHANGED <<nextInst, recordingInstance, micRunning>>
       [] outcome = "startThrows" ->
            /\ nextInst' = nextInst + 1
            /\ recordingInstance' = nextInst + 1
            /\ StartFailedWith(c, nextInst + 1)
            /\ UNCHANGED micRunning
  /\ UNCHANGED <<microphoneAudioChunks, systemAudioChunks, audioChunks,
                 systemAudioStream, enableSystemAudioRecording,
                 enableEchoCancellation, nData, nCalls, pureVars>>

\* startRecording, lines 97-104, with startSystemAudioRecording (285-308):
\* loopbackOk is whether require('electron-audio-loopback') succeeds; its
\* failure is caught and the start goes on
StartSys(c, loopbackOk) ==
  /\ turn = c
  /\ calls[c].pc = "start_sys"
  /\ systemAudioStream' =
       IF enableSystemAudioRecording /\ loopbackOk THEN TRUE
       ELSE systemAudioStream
  /\ Set(c, Done(calls[c], "ok"))
  /\ turn' = 0
  /\ UNCHANGED <<isRecording, recordingInstance, microphoneAudioChunks,
                 systemAudioChunks, audioChunks, enableSystemAudioRecording,
                 enableEchoCancellation, micRunning, nextInst, nData, nCalls, pureVars>>

\* ipcMain.handle('stop-combined-audio-recording') calls stopRecording
IpcStop(c) ==
  /\ turn = 0
  /\ nCalls < MaxCalls
  /\ c = nCalls + 1
  /\ nCalls' = c
  /\ Set(c, [calls[c] EXCEPT !.kind = "stop", !.pc = "stop_enter"])
  /\ turn' = c
  /\ UnchangedService

\* a stopRecording call returns r: to the IPC handler, or to startRecording,
\* which discards the value and goes on to reset the buffers
Return(c, r) ==
  IF calls[c].nested
    THEN /\ Set(c, [calls[c] EXCEPT !.pc = "start_reset", !.stopRes = Tag(r),
                                     !.out = r])
         /\ UNCHANGED turn
    ELSE /\ Set(c, [Done(calls[c], Tag(r)) EXCEPT !.stopRes = Tag(r), !.out = r])
         /\ turn' = 0

\* stopRecording, lines 113-116: "No active recording to stop"
ReturnIdle(c) ==
  IF calls[c].nested
    THEN /\ Set(c, [calls[c] EXCEPT !.pc = "start_reset", !.stopRes = "null",
                                     !.idleStop = TRUE])
         /\ UNCHANGED turn
    ELSE /\ Set(c, [Done([calls[c] EXCEPT !.idleStop = TRUE], "null")
                      EXCEPT !.stopRes = "null"])
         /\ turn' = 0

\* a stopRecording without the isRecording guard
StopEnter_NoGuard(c) ==
  /\ turn = c
  /\ calls[c].pc = "stop_enter"
  /\ Set(c, [calls[c] EXCEPT !.pc = "stop_mic"])
  /\ UNCHANGED <<turn, nCalls>>
  /\ UnchangedService

\* stopRecording, lines 112-118
StopEnter(c) ==
  /\ turn = c
  /\ calls[c].pc = "stop_enter"
  /\ IF ~isRecording
       THEN ReturnIdle(c)
       ELSE /\ Set(c, [calls[c] EXCEPT !.pc = "stop_mic"])
            /\ UNCHANGED turn
  /\ UNCHANGED nCalls
  /\ UnchangedService

\* a stopMicrophoneRecording that leaves the recorder handle and the
\* accumulation buffer in place when it suspends on the converter
StopMic_KeepsRecorder(c, writeOk) ==
  /\ turn = c
  /\ calls[c].pc = "stop_mic"
  /\ IF recordingInstance = 0
       THEN /\ Set(c, [calls[c] EXCEPT !.pc = "stop_sys", !.micBuf = Null])
            /\ UNCHANGED <<turn, micRunning>>
       ELSE /\ micRunning' = micRunning \ {recordingInstance}
            /\ IF SumLen(microphoneAudioChunks) = 0 \/ ~writeOk
                 THEN /\ Set(c, [calls[c] EXCEPT !.pc = "stop_sys",
                                                 !.micBuf = Null])
                      /\ UNCHANGED turn
                 ELSE /\ Set(c, [calls[c] EXCEPT !.pc = "conv",
                                      !.raw = microphoneAudioChunks])
                      /\ turn' = 0
  /\ UNCHANGED <<isRecording, recordingInstance, microphoneAudioChunks,
                 systemAudioChunks, audioChunks,
                 systemAudioStream, enableSystemAudioRecording,
                 enableEchoCancellation, nextInst, nData, nCalls, pureVars>>

\* stopMicrophoneRecording, lines 252-279, up to the await of the converter.
\* writeOk: fs.writeFileSync of the raw file succeeds
StopMic(c, writeOk) ==
  /\ turn = c
  /\ calls[c].pc = "stop_mic"
  /\ IF recordingInstance = 0
       THEN /\ Set(c, [calls[c] EXCEPT !.pc = "stop_sys", !.micBuf = Null])
            /\ UNCHANGED <<turn, recordingInstance, micRunning,
                           microphoneAudioChunks>>
       ELSE /\ micRunning' = micRunning \ {recordingInstance}
            /\ recordingInstance' = 0
            /\ microphoneAudioChunks' = <<>>
            /\ IF SumLen(microphoneAudioChunks) = 0 \/ ~writeOk
                 THEN /\ Set(c, [calls[c] EXCEPT !.pc = "stop_sys",
                                                 !.micBuf = Null])
                      /\ UNCHANGED turn
                 ELSE /\ Set(c, [calls[c] EXCEPT !.pc = "conv",
                                      !.raw = microphoneAudioChunks])
                      /\ turn' = 0
  /\ UNCHANGED <<isRecording, systemAudioChunks, audioChunks,
                 systemAudioStream, enableSystemAudioRecording,
                 enableEchoCancellation, nextInst, nData, nCalls, pureVars>>

\* convertPcmToWavWithSox settles (lines 799-826): with the container, or
\* with a rejection that stopMicrophoneRecording's catch turns into null
ConvSettled(c, ok) ==
  /\ turn = 0
  /\ calls[c].pc = "conv"
  /\ Set(c, [calls[c] EXCEPT !.pc = "stop_sys",
               !.micBuf = IF ok THEN Container(calls[c].raw) ELSE Null])
  /\ turn' = c
  /\ UNCHANGED nCalls
  /\ UnchangedService

\* a variant in which the system stop hands over a buffer when system audio
\* is enabled at the time of the stop
StopSys_HandsOverSystemAudio(c) ==
  /\ turn = c
  /\ calls[c].pc = "stop_sys"
  /\ systemAudioStream' = FALSE
  /\ systemAudioChunks' = IF systemAudioStream THEN <<>> ELSE systemAudioChunks
  /\ isRecording' = FALSE
  /\ Set(c, [calls[c] EXCEPT !.pc = "finalize",
               !.sysBuf = IF enableSystemAudioRecording
                            THEN Container(<<[src |-> "sys", inst |-> 0,
                                              len |-> 2 * sampleRate]>>)
                            ELSE Null])
  /\ UNCHANGED <<turn, recordingInstance, microphoneAudioChunks, audioChunks,
                 enableSystemAudioRecording, enableEchoCancellation,
                 micRunning, nextInst, nData, nCalls, pureVars>>

\* stopRecording, lines 125-127, with stopSystemAudioRecording (320-340),
\* which returns null on every path
StopSys(c) ==
  /\ turn = c
  /\ calls[c].pc = "stop_sys"
  /\ systemAudioStream' = FALSE
  /\ systemAudioChunks' = IF systemAudioStream THEN <<>> ELSE systemAudioChunks
  /\ isRecording' = FALSE
  /\ Set(c, [calls[c] EXCEPT !.pc = "finalize", !.sysBuf = Null])
  /\ UNCHANGED <<turn, recordingInstance, microphoneAudioChunks, audioChunks,
                 enableSystemAudioRecording, enableEchoCancellation,
                 micRunning, nextInst, nData, nCalls, pureVars>>

\* stopRecording, lines 129-150
Finalize(c) ==
  /\ turn = c
  /\ calls[c].pc = "finalize"
  /\ \E mixThrows \in BOOLEAN :
       Return(c, StopResult(calls[c].micBuf, calls[c].sysBuf, mixThrows))
  /\ UNCHANGED nCalls
  /\ UnchangedService

\* the 'data' listener of recorder instance i (lines 184-189); seq numbers
\* the 'data' events in the order of their delivery
onData(i, n) ==
  /\ turn = 0
  /\ nData < MaxChunks
  /\ nData' = nData + 1
  /\ microphoneAudioChunks' =
       IF isRecording
         THEN Append(microphoneAudioChunks,
                     [src |-> "mic", inst |-> i, len |-> n, seq |-> nData + 1])
         ELSE microphoneAudioChunks
  /\ UNCHANGED <<isRecording, recordingInstance, systemAudioChunks,
                 audioChunks, systemAudioStream, enableSystemAudioRecording,
                 enableEchoCancellation, micRunning, nextInst, calls, nCalls,
                 turn, pureVars>>

\* a chunk of n bytes from the running recorder instance i
MicData(i, n) == i \in micRunning /\ onData(i, n)

\* setSystemAudioRecording (lines 44-47)
setSystemAudioRecording(enabled) ==
  /\ turn = 0
  /\ enableSystemAudioRecording # enabled
  /\ enableSystemAudioRecording' = enabled
  /\ UNCHANGED <<isRecording, recordingInstance, microphoneAudioChunks,
                 systemAudioChunks, audioChunks, systemAudioStream,
                 enableEchoCancellation, micRunning, nextInst, nData, calls,
                 nCalls, turn, pureVars>>

\* the pure-function harnesses are parked while the controller runs
finPark == fin = [phase |-> "off"]
mixPark == mix = [phase |-> "off"]
convPark == conv = [pc |-> "off"]
platPark == plat = [pc |-> "off"]
rechPark == rech = [kind |-> "off"]

Init == svcInit /\ finPark /\ mixPark /\ convPark /\ platPark /\ rechPark

Next ==
  \/ \E c \in Calls, ok \in BOOLEAN : IpcStart(c, ok)
  \/ \E c \in Calls : StartEnter(c)
  \/ \E c \in Calls : StartReset(c)
  \/ \E c \in Calls, ok \in BOOLEAN : SoxCheckSettled(c, ok)
  \/ \E c \in Calls, o \in {"ok", "recordThrows", "startThrows"} : StartMic(c, o)
  \/ \E c \in Calls, ok \in BOOLEAN : StartSys(c, ok)
  \/ \E c \in Calls : IpcStop(c)
  \/ \E c \in Calls : StopEnter(c)
  \/ \E c \in Calls, ok \in BOOLEAN : StopMic(c, ok)
  \/ \E c \in Calls, ok \in BOOLEAN : ConvSettled(c, ok)
  \/ \E c \in Calls : StopSys(c)
  \/ \E c \in Calls : Finalize(c)
  \/ \E i \in Insts, n \in ChunkSizes : MicData(i, n)
  \/ \E e \in BOOLEAN : setSystemAudioRecording(e)

Spec == Init /\ [][Next]_vars

\* ===================================================================
\* The end of stopRecording on its own (SpecFinalize): lines 129-150 applied
\* to every pair of buffers the two stops can hand it
\* ===================================================================
\* payload sizes in bytes: around the 0.5 s threshold, and a full second
FinSizes == {2, 15954, 15956, 15957, 16000, 32000}

FinBuffers(src) ==
  {Null} \cup {Container(<<[src |-> src, inst |-> 0, len |-> n]>>) : n \in FinSizes}

finInit ==
  fin \in {[phase |-> "in", microphoneBuffer |-> m, systemAudioBuffer |-> y,
            mixThrows |-> FALSE, branch |-> "none", combinedBuffer |-> Null,
            out |-> Null] : m \in FinBuffers("mic"), y \in FinBuffers("sys")}

\* lines 129-132
FinNoData ==
  /\ fin.phase = "in"
  /\ fin.microphoneBuffer = Null /\ fin.systemAudioBuffer = Null
  /\ fin' = [fin EXCEPT !.phase = "returned", !.out = Null]
  /\ UNCHANGED <<svcVars, mix, conv, plat, rech>>

\* line 135
FinCombine(mixThrows) ==
  /\ fin.phase = "in"
  /\ ~(fin.microphoneBuffer = Null /\ fin.systemAudioBuffer = Null)
  /\ fin' = [fin EXCEPT
       !.phase = "combined",
       !.mixThrows = mixThrows /\ fin.microphoneBuffer # Null
                               /\ fin.systemAudioBuffer # Null,
       !.branch = combineBranch(fin.microphoneBuffer, fin.systemAudioBuffer,
                                mixThrows),
       !.combinedBuffer = combineAudioBuffers(fin.microphoneBuffer,
                                              fin.systemAudioBuffer, mixThrows)]
  /\ UNCHANGED <<svcVars, mix, conv, plat, rech>>

\* lines 137-150
FinGate ==
  /\ fin.phase = "combined"
  /\ fin' = [fin EXCEPT !.phase = "returned",
                        !.out = durationGate(fin.combinedBuffer)]
  /\ UNCHANGED <<svcVars, mix, conv, plat, rech>>

InitFinalize == svcInit /\ finInit /\ mixPark /\ convPark /\ platPark /\ rechPark

NextFinalize ==
  \/ FinNoData
  \/ \E t \in BOOLEAN : FinCombine(t)
  \/ FinGate

SpecFinalize == InitFinalize /\ [][NextFinalize]_vars

\* ===================================================================
\* The mix of combineAudioBuffers at sample level (SpecMix): lines 364-377
\* ===================================================================
\* A PCM payload is the sequence of its 16-bit samples (the Int16Array the
\* three stages build over it).  The stages compute in double precision on
\* sample / 32767; here the same quantities are kept as exact fractions of
\* integers: a comparison "x < 0.15" on a normalised value is a comparison
\* of 100 * sample with 15 * 32767 (never equal, 32767 having no factor 2 or
\* 5), and Math.round(q) is floor(q + 1/2).  The double result differs from
\* the exact one only where q is exactly k + 1/2 and the double lands below
\* it; RoundsBelowHalf lists the operand pairs of Samples where it does.
MaxLen == 1

int16Max == 32767
int16Min == -32768
minConsecutiveEcho == 50
voiceAnalysisWindow == 2000
echoAnalysisWindow == 1000

Samples == {int16Min, 0, 5000, int16Max}

Min(a, b) == IF a <= b THEN a ELSE b
Abs(x) == IF x < 0 THEN -x ELSE x

\* Math.max(-32768, Math.min(32767, finalSample))
Clip(x) == Max(int16Min, Min(int16Max, x))

\* Math.round(n / d) for d > 0
RoundDiv(n, d) == (2 * n + d) \div (2 * d)

\* Math.round(a / da + b / db) for da, db > 0, without forming a * db
RoundSum(a, da, b, db) ==
  LET fn == (a % da) * db + (b % db) * da
      D  == da * db
  IN (a \div da) + (b \div db) + ((2 * fn + D) \div (2 * D))

\* <<q, r>> with p * k = q * d + r and 0 <= r < d, for p, k >= 0 and d > 0
RECURSIVE MulDivMod(_, _, _)
MulDivMod(p, k, d) ==
  IF k = 0 THEN <<0, 0>>
  ELSE LET h  == MulDivMod(p, k \div 2, d)
           r2 == 2 * h[2] + (k % 2) * (p % d)
       IN <<2 * h[1] + (k % 2) * (p \div d) + (r2 \div d), r2 % d>>

\* |sample| / 32767 > pct / 100, and < pct / 100
Above(a, pct) == 100 * a > pct * int16Max
Below(a, pct) == 100 * a < pct * int16Max

\* i < array.length ? array[i] : 0   (indices from 1 here)
sampleAt(array, i) == IF i <= Len(array) THEN array[i] ELSE 0

maxLength_Shorter(micArray, sysArray) == Min(Len(micArray), Len(sysArray))

\* Math.max(micArray.length, sysArray.length): lines 400, 575 and 600
maxLength(micArray, sysArray) == Max(Len(micArray), Len(sysArray))

\* ---- applyVoiceEchoCancellation (lines 594-717)
\* lines 606-645
voiceScenario(micArray, sysArray, voiceRecordingMode) ==
  IF voiceRecordingMode = "auto"
    THEN LET analysisSamples ==
               Min(voiceAnalysisWindow, maxLength(micArray, sysArray))
             voiceEchoCount == Cardinality({i \in 1..analysisSamples :
               /\ Above(Abs(sampleAt(micArray, i)), 10)
               /\ Above(Abs(sampleAt(sysArray, i)), 5)
               /\ Below(Abs(sampleAt(micArray, i) - sampleAt(sysArray, i)), 15)})
             voicePresent == Cardinality({i \in 1..analysisSamples :
               Above(Abs(sampleAt(micArray, i)), 15)})
         IN IF /\ 10 * voiceEchoCount > analysisSamples
               /\ 5 * voicePresent > analysisSamples
              THEN "speakers" ELSE "headphones"
    ELSE voiceRecordingMode

\* operand pairs <<mic, sys>> of the headphones mix (0.7 / 0.3, no bleed)
\* whose double result lies just below the exact k + 1/2
RoundsBelowHalf == {<<int16Max, int16Min>>}

\* lines 653-678: one sample of the headphones loop
headphonesSample(micSample, sysSample) ==
  LET similarity == Abs(micSample - sysSample)
      isSystemBleed == /\ Below(similarity, 5)
                       /\ Above(Abs(sysSample), 10)
                       /\ Below(Abs(micSample), 30)
      finalSample ==
        IF isSystemBleed
          THEN RoundDiv(56 * micSample + 30 * sysSample, 100)
          ELSE RoundDiv(7 * micSample + 3 * sysSample, 10)
            - (IF <<micSample, sysSample>> \in RoundsBelowHalf THEN 1 ELSE 0)
  IN Clip(finalSample)

\* lines 685-712: one sample of the speakers loop.  With the echo flagged,
\* processed = mic * (1 - 0.6 * (0.2 - similarity) / 0.2)
\*           = mic * (0.4 + 3 * similarity), so the mixed sample times 32767
\* is (2 mic + 5 sys) / 10 + 3 * mic * |mic - sys| / (2 * 32767)
speakersSample(micSample, sysSample) ==
  LET similarity == Abs(micSample - sysSample)
      isVoiceEcho == /\ Below(similarity, 20)
                     /\ Above(Abs(sysSample), 5)
                     /\ Above(Abs(micSample), 10)
                     /\ Below(Abs(micSample), 80)
      finalSample ==
        IF isVoiceEcho
          THEN RoundSum(2 * micSample + 5 * sysSample, 10,
                        3 * micSample * similarity, 2 * int16Max)
          ELSE RoundDiv(micSample + sysSample, 2)
  IN Clip(finalSample)

applyVoiceEchoCancellation(micArray, sysArray, voiceRecordingMode) ==
  LET scenario == voiceScenario(micArray, sysArray, voiceRecordingMode)
  IN [i \in 1..maxLength(micArray, sysArray) |->
        IF scenario = "headphones"
          THEN headphonesSample(sampleAt(micArray, i), sampleAt(sysArray, i))
          ELSE speakersSample(sampleAt(micArray, i), sampleAt(sysArray, i))]

\* ---- mixAudioBuffersWithEchoCancellation (lines 394-566)
\* lines 408-425; thresholds in hundredths
sensitivityParams(sensitivity) ==
  IF sensitivity = "low"
    THEN [echoThreshold |-> 12, echoReduction |-> 35, micAmplitudeThreshold |-> 70]
  ELSE IF sensitivity = "high"
    THEN [echoThreshold |-> 18, echoReduction |-> 65, micAmplitudeThreshold |-> 85]
  ELSE [echoThreshold |-> 15, echoReduction |-> 50, micAmplitudeThreshold |-> 75]

\* a variant that never takes the manual setting into account
detectedScenario_IgnoresManual(micArray, sysArray, audioScenario) == "unknown"

\* lines 435-486: "earphones", "speakers" or "unknown"
detectedScenario(micArray, sysArray, audioScenario) ==
  IF audioScenario = "earphones" THEN "earphones"
  ELSE IF audioScenario = "speakers" THEN "speakers"
  ELSE LET analysisSamples ==
             Min(echoAnalysisWindow, maxLength(micArray, sysArray))
           highSimilarityCount == Cardinality({i \in 1..analysisSamples :
             Below(Abs(sampleAt(micArray, i) - sampleAt(sysArray, i)), 10)})
           systemAudioPresent == Cardinality({i \in 1..analysisSamples :
             Above(Abs(sampleAt(sysArray, i)), 5)})
       IN IF /\ 10 * highSimilarityCount < analysisSamples
             /\ 10 * systemAudioPresent > 3 * analysisSamples
            THEN "earphones"
          ELSE IF /\ 10 * highSimilarityCount > 3 * analysisSamples
                  /\ 5 * systemAudioPresent > analysisSamples
            THEN "speakers"
          ELSE "unknown"

\* lines 488-501
echoParams(micArray, sysArray, sensitivity, audioScenario) ==
  LET base == sensitivityParams(sensitivity)
      detected == detectedScenario(micArray, sysArray, audioScenario)
  IN IF detected = "earphones"
       THEN [echoThreshold |-> 8, echoReduction |-> 20, micAmplitudeThreshold |-> 90]
     ELSE IF detected = "speakers"
       THEN [echoThreshold |-> 20,
             echoReduction |-> Min(base.echoReduction + 20, 80),
             micAmplitudeThreshold |-> Max(base.micAmplitudeThreshold - 10, 60)]
     ELSE base

\* lines 521-525
potentialEcho(micSample, sysSample, p) ==
  /\ Below(Abs(micSample - sysSample), p.echoThreshold)
  /\ Above(Abs(sysSample), 3)
  /\ Below(Abs(micSample), p.micAmplitudeThreshold)
  /\ Above(Abs(micSample), 1)
  /\ 5 * Abs(sysSample) > 4 * Abs(micSample)

\* lines 535-558 with the reduction applied: the mixed sample times 32767 is
\* (4 mic + 6 sys) / 10 - mic * R * (T - similarity) / T * 0.4, that is
\* (4 mic + 6 sys) / 10 - mic * r * K / D  with  K = t * 32767 - 100 * |mic - sys|
\* and D = 250 * t * 32767  (t, r the threshold and reduction in hundredths)
reducedSample(micSample, sysSample, p) ==
  LET K  == p.echoThreshold * int16Max - 100 * Abs(micSample - sysSample)
      D  == 250 * p.echoThreshold * int16Max
      a  == 4 * micSample + 6 * sysSample
      qr == MulDivMod(Abs(micSample) * p.echoReduction, K, D)
      fn == IF micSample >= 0 THEN (a % 10) * (D \div 10) - qr[2]
                              ELSE (a % 10) * (D \div 10) + qr[2]
      q  == IF micSample >= 0 THEN (a \div 10) - qr[1] ELSE (a \div 10) + qr[1]
  IN Clip(q + ((2 * fn + D) \div (2 * D)))

\* lines 552-558 without reduction
unreducedSample(micSample, sysSample) ==
  Clip(RoundDiv(4 * micSample + 6 * sysSample, 10))

\* a loop body that attenuates every flagged sample
echoStep_NoMinimumRun(micSample, sysSample, p, consecutiveEchoSamples) ==
  LET flagged == potentialEcho(micSample, sysSample, p)
      run == IF flagged THEN consecutiveEchoSamples + 1 ELSE 0
  IN [sample |-> IF flagged THEN reducedSample(micSample, sysSample, p)
                            ELSE unreducedSample(micSample, sysSample),
      consecutiveEchoSamples |-> run,
      echoSamples |-> IF flagged THEN 1 ELSE 0]

\* lines 504-558: one pass of the loop body, entered with the running count
\* of consecutive flagged samples
echoStep(micSample, sysSample, p, consecutiveEchoSamples) ==
  LET flagged == potentialEcho(micSample, sysSample, p)
      run == IF flagged THEN consecutiveEchoSamples + 1 ELSE 0
      reduce == flagged /\ run >= minConsecutiveEcho
  IN [sample |-> IF reduce THEN reducedSample(micSample, sysSample, p)
                           ELSE unreducedSample(micSample, sysSample),
      consecutiveEchoSamples |-> run,
      echoSamples |-> IF reduce THEN 1 ELSE 0]

\* lines 503-559: the passes for indices lo..hi in order, entered with the
\* running count of consecutive flagged samples; yields the samples written,
\* the running count after index hi and the number of attenuated samples.
\* (The range is split in halves, the second entered with the count the
\* first leaves, which keeps the evaluation shallow.)
RECURSIVE echoLoop(_, _, _, _, _, _)
echoLoop(micArray, sysArray, p, lo, hi, consecutiveEchoSamples) ==
  IF lo > hi
    THEN [mixedArray |-> <<>>, consecutiveEchoSamples |-> consecutiveEchoSamples,
          totalEchoSamples |-> 0]
  ELSE IF lo = hi
    THEN LET step == echoStep(sampleAt(micArray, lo), sampleAt(sysArray, lo),
                              p, consecutiveEchoSamples)
         IN [mixedArray |-> <<step.sample>>,
             consecutiveEchoSamples |-> step.consecutiveEchoSamples,
             totalEchoSamples |-> step.echoSamples]
  ELSE LET mid == (lo + hi) \div 2
           first == echoLoop(micArray, sysArray, p, lo, mid, consecutiveEchoSamples)
           rest == echoLoop(micArray, sysArray, p, mid + 1, hi,
                            first.consecutiveEchoSamples)
       IN [mixedArray |-> first.mixedArray \o rest.mixedArray,
           consecutiveEchoSamples |-> rest.consecutiveEchoSamples,
           totalEchoSamples |-> first.totalEchoSamples + rest.totalEchoSamples]

echoCancellationRun(micArray, sysArray, sensitivity, audioScenario) ==
  echoLoop(micArray, sysArray,
           echoParams(micArray, sysArray, sensitivity, audioScenario),
           1, maxLength(micArray, sysArray), 0)

mixAudioBuffersWithEchoCancellation(micArray, sysArray, sensitivity, audioScenario) ==
  echoCancellationRun(micArray, sysArray, sensitivity, audioScenario).mixedArray

\* ---- mixAudioBuffers (lines 569-588)
\* a variant that adds the two samples without halving or clipping
mixAudioBuffers_Sum(micArray, sysArray) ==
  [i \in 1..maxLength(micArray, sysArray) |->
     sampleAt(micArray, i) + sampleAt(sysArray, i)]

mixAudioBuffers(micArray, sysArray) ==
  [i \in 1..maxLength(micArray, sysArray) |->
     Clip(RoundDiv(sampleAt(micArray, i) + sampleAt(sysArray, i), 2))]

\* ---- buffers as byte sequences
\* new Int16Array(pcm.buffer, pcm.byteOffset, pcm.length / 2): little-endian
\* two's-complement samples; a trailing odd byte is not part of the view
Int16ArrayOf(pcm) ==
  [i \in 1..(Len(pcm) \div 2) |->
     LET u == pcm[2 * i - 1] + 256 * pcm[2 * i]
     IN IF u > int16Max THEN u - 65536 ELSE u]

\* Buffer.from(array.buffer): the bytes of an Int16Array
BufferFrom(array) ==
  [k \in 1..(2 * Len(array)) |->
     LET u == array[(k + 1) \div 2] % 65536
     IN IF k % 2 = 1 THEN u % 256 ELSE u \div 256]

\* buffer.writeUInt32LE / writeUInt16LE / write(string): the bytes written
UInt32LE(v) == <<v % 256, (v \div 256) % 256, (v \div 65536) % 256,
                 (v \div 16777216) % 256>>
UInt16LE(v) == <<v % 256, (v \div 256) % 256>>
RIFF == <<82, 73, 70, 70>>
WAVE == <<87, 65, 86, 69>>
FMT  == <<102, 109, 116, 32>>
DATA == <<100, 97, 116, 97>>

\* the unsigned 32-bit little-endian field at byte offset off
readUInt32LE(buffer, off) ==
  buffer[off + 1] + 256 * buffer[off + 2] + 65536 * buffer[off + 3]
    + 16777216 * buffer[off + 4]

\* a variant that writes the whole length into the size field
convertPcmToWav_SizeOfWholeFile(pcmBuffer) ==
  RIFF \o UInt32LE(headerSize + Len(pcmBuffer)) \o WAVE
    \o FMT \o UInt32LE(16) \o UInt16LE(1) \o UInt16LE(channels)
    \o UInt32LE(sampleRate)
    \o UInt32LE((sampleRate * channels * bitsPerSample) \div 8)
    \o UInt16LE((channels * bitsPerSample) \div 8) \o UInt16LE(bitsPerSample)
    \o DATA \o UInt32LE(Len(pcmBuffer)) \o pcmBuffer

\* convertPcmToWav (lines 834-865)
convertPcmToWav(pcmBuffer) ==
  LET dataSize == Len(pcmBuffer)
      fileSize == headerSize + dataSize - 8
  IN RIFF \o UInt32LE(fileSize) \o WAVE
       \o FMT \o UInt32LE(16) \o UInt16LE(1) \o UInt16LE(channels)
       \o UInt32LE(sampleRate)
       \o UInt32LE((sampleRate * channels * bitsPerSample) \div 8)
       \o UInt16LE((channels * bitsPerSample) \div 8) \o UInt16LE(bitsPerSample)
       \o DATA \o UInt32LE(dataSize) \o pcmBuffer

\* extractPcmFromWav: wavBuffer.slice(44)
extractPcmFromWav(wavBuffer) == SubSeq(wavBuffer, headerSize + 1, Len(wavBuffer))

\* buffer.toString('ascii', from, to): decoding clears the top bit of a byte
asciiString(buffer, from, to) == [k \in 1..(to - from) |-> buffer[from + k] % 128]

\* isValidWavBuffer (lines 867-877)
isValidWavBuffer(buffer) ==
  IF Len(buffer) < 44 THEN FALSE
  ELSE asciiString(buffer, 0, 4) = RIFF /\ asciiString(buffer, 8, 12) = WAVE

wavLength(wav) == Len(wav)

\* ---- the inputs and the steps of lines 364-377
Run(v, n) == [i \in 1..n |-> v]
SeqsOfLen(lo, hi) == UNION {[1..n -> Samples] : n \in lo..hi}

\* long enough for the consecutive-echo count to reach its minimum
LongLen == minConsecutiveEcho + MaxLen

\* a constant signal with one full-scale sample after its first 30 samples
BrokenRun == Run(5000, 30) \o <<int16Min>> \o Run(5000, LongLen)

\* <<microphone payload, system payload>>: every short pair (a microphone
\* container always holds data, lines 265-268), two pairs of unequal lengths
\* with mixed contents, an identical quiet pair (amplitude 0.06), a pair with
\* zero correlation, runs of a constant signal, and an interrupted run
MixInputs ==
  (SeqsOfLen(1, MaxLen) \X SeqsOfLen(0, MaxLen))
    \cup {<<<<5000, 0>>, <<0, 5000, int16Max>>>>,
          <<<<int16Max, int16Min, 5000>>, <<5000, int16Min>>>>,
          <<<<5000>>, <<5000, 5000>>>>,
          <<Run(2000, 3), Run(2000, 3)>>,
          <<<<5000, 5000, -5000, -5000>>, <<5000, -5000, 5000, -5000>>>>,
          <<Run(5000, LongLen), Run(5000, LongLen)>>,
          <<Run(5000, LongLen), <<5000>>>>,
          <<<<5000>>, Run(5000, LongLen)>>,
          <<BrokenRun, Run(5000, Len(BrokenRun))>>}

\* long enough for the container's length fields to need a second byte
WideLen == 128 + MaxLen

\* the payload pairs as bytes; one system payload ends in an odd byte
MixPayloads ==
  {<<BufferFrom(io[1]), BufferFrom(io[2])>> : io \in MixInputs}
    \cup {<<BufferFrom(<<5000, int16Min>>), BufferFrom(<<int16Max, 5000>>) \o <<7>>>>,
          <<BufferFrom(<<5000>>), BufferFrom(Run(5000, WideLen))>>}

Sensitivities == {"low", "medium", "high"}
AudioScenarios == {"auto", "earphones", "speakers"}
VoiceRecordingModes == {"auto", "headphones", "speakers"}

mixInit ==
  mix \in {[phase |-> "in",
            microphoneBuffer |-> convertPcmToWav(io[1]),
            systemAudioBuffer |-> convertPcmToWav(io[2]),
            echoCancellationSensitivity |-> "medium",
            audioScenario |-> "auto",
            voiceRecordingMode |-> "auto",
            voiceProcessedPcm |-> <<>>,
            finalPcm |-> <<>>,
            finalWav |-> <<>>] : io \in MixPayloads}

\* setEchoCancellation (lines 49-52)
setEchoCancellation(enabled) ==
  /\ mix.phase = "in"
  /\ enableEchoCancellation # enabled
  /\ enableEchoCancellation' = enabled
  /\ UNCHANGED <<isRecording, recordingInstance, microphoneAudioChunks,
                 systemAudioChunks, audioChunks, systemAudioStream,
                 enableSystemAudioRecording, micRunning, nextInst, nData,
                 calls, nCalls, turn, pureVars>>

\* setEchoCancellationSensitivity (lines 54-57)
setEchoCancellationSensitivity(sensitivity) ==
  /\ mix.phase = "in"
  /\ mix.echoCancellationSensitivity # sensitivity
  /\ mix' = [mix EXCEPT !.echoCancellationSensitivity = sensitivity]
  /\ UNCHANGED <<svcVars, fin, conv, plat, rech>>

\* setAudioScenario (lines 59-62)
setAudioScenario(scenario) ==
  /\ mix.phase = "in"
  /\ mix.audioScenario # scenario
  /\ mix' = [mix EXCEPT !.audioScenario = scenario]
  /\ UNCHANGED <<svcVars, fin, conv, plat, rech>>

\* setVoiceRecordingMode (lines 64-67)
setVoiceRecordingMode(mode) ==
  /\ mix.phase = "in"
  /\ mix.voiceRecordingMode # mode
  /\ mix' = [mix EXCEPT !.voiceRecordingMode = mode]
  /\ UNCHANGED <<svcVars, fin, conv, plat, rech>>

\* lines 365-369
MixVoice ==
  /\ mix.phase = "in"
  /\ mix' = [mix EXCEPT
       !.phase = "voiced",
       !.voiceProcessedPcm =
          BufferFrom(applyVoiceEchoCancellation(
            Int16ArrayOf(extractPcmFromWav(mix.microphoneBuffer)),
            Int16ArrayOf(extractPcmFromWav(mix.systemAudioBuffer)),
            mix.voiceRecordingMode))]
  /\ UNCHANGED <<svcVars, fin, conv, plat, rech>>

\* lines 372-373
MixEcho ==
  /\ mix.phase = "voiced"
  /\ enableEchoCancellation
  /\ mix' = [mix EXCEPT
       !.phase = "mixed",
       !.finalPcm =
          BufferFrom(mixAudioBuffersWithEchoCancellation(
            Int16ArrayOf(mix.voiceProcessedPcm),
            Int16ArrayOf(extractPcmFromWav(mix.systemAudioBuffer)),
            mix.echoCancellationSensitivity, mix.audioScenario))]
  /\ UNCHANGED <<svcVars, fin, conv, plat, rech>>

\* lines 372-374
MixPlain ==
  /\ mix.phase = "voiced"
  /\ ~enableEchoCancellation
  /\ mix' = [mix EXCEPT
       !.phase = "mixed",
       !.finalPcm = BufferFrom(mixAudioBuffers(
          Int16ArrayOf(mix.voiceProcessedPcm),
          Int16ArrayOf(extractPcmFromWav(mix.systemAudioBuffer))))]
  /\ UNCHANGED <<svcVars, fin, conv, plat, rech>>

\* line 377
MixWav ==
  /\ mix.phase = "mixed"
  /\ mix' = [mix EXCEPT !.phase = "wav",
                        !.finalWav = convertPcmToWav(mix.finalPcm)]
  /\ UNCHANGED <<svcVars, fin, conv, plat, rech>>

InitMix == svcInit /\ finPark /\ mixInit /\ convPark /\ platPark /\ rechPark

NextMix ==
  \/ \E e \in BOOLEAN : setEchoCancellation(e)
  \/ \E x \in Sensitivities : setEchoCancellationSensitivity(x)
  \/ \E a \in AudioScenarios : setAudioScenario(a)
  \/ \E m \in VoiceRecordingModes : setVoiceRecordingMode(m)
  \/ MixVoice
  \/ MixEcho
  \/ MixPlain
  \/ MixWav

SpecMix == InitMix /\ [][NextMix]_vars

\* ===================================================================
\* Claims about the session controller (checked under Spec)
\* ===================================================================

C2_AtMostOneRecorder == Cardinality(micRunning) <= 1

\* C3: stopRecording on an Idle session (isRecording false) returns null
\* and changes nothing: no backend is signalled, the buffers and the
\* configuration are unchanged and the session stays Idle.
C3_IdleStopIsNoOp ==
  [][\A c \in Calls :
       (calls[c].pc = "stop_enter" /\ ~isRecording) =>
         /\ UNCHANGED <<isRecording, recordingInstance, microphoneAudioChunks,
                        systemAudioChunks, audioChunks, systemAudioStream,
                        enableSystemAudioRecording, enableEchoCancellation,
                        micRunning>>
         /\ calls'[c].stopRes = "null" /\ calls'[c].out = Null
         /\ (~calls[c].nested =>
               calls'[c].pc = "done" /\ calls'[c].res = "null")]_vars

\* a second stop after a completed stop that returned a container
C3_Witness ==
  \E c, d \in Calls :
    /\ c < d
    /\ calls[c].kind = "stop" /\ calls[c].res = "buffer"
    /\ calls[d].kind = "stop" /\ calls[d].pc = "done" /\ calls[d].idleStop
    /\ ~isRecording

\* the microphone backend fails to start: the recording tool is missing, or
\* creating or starting the recorder throws
MicStartFails(c) ==
  \/ SoxCheckSettled(c, FALSE)
  \/ StartMic(c, "recordThrows")
  \/ StartMic(c, "startThrows")

\* C4: when the microphone backend fails to start, the start is answered
\* with the error, the system-audio backend is not started and isRecording is
\* false when the call returns.
C4_MicFailureAbortsStart ==
  [][\A c \in Calls :
       MicStartFails(c) =>
         /\ calls'[c].pc = "done" /\ calls'[c].res = "error"
         /\ ~isRecording'
         /\ UNCHANGED systemAudioStream]_vars

C4_Witness ==
  \E c \in Calls :
    /\ calls[c].kind = "start" /\ calls[c].res = "error" /\ calls[c].made # 0
    /\ ~isRecording /\ ~systemAudioStream

\* C5: when the system-audio backend fails to start, the start still
\* succeeds, the session is Recording with the microphone backend this start
\* created running, and no system stream handle is set.
C5_SystemFailureKeepsRecording ==
  [][\A c \in Calls :
       StartSys(c, FALSE) =>
         /\ calls'[c].res = "ok"
         /\ isRecording'
         /\ recordingInstance' = calls'[c].made
         /\ calls'[c].made \in micRunning'
         /\ UNCHANGED systemAudioStream]_vars

\* C6: after a failed start no recorder instance created during that start
\* is still running or referenced.
C6_FailedStartLeavesNoHandle ==
  \A c \in Calls :
    (calls[c].kind = "start" /\ calls[c].res = "error" /\ calls[c].made # 0) =>
      /\ recordingInstance # calls[c].made
      /\ calls[c].made \notin micRunning

\* 0.5 x sampleRate samples
minSamples == sampleRate \div 2

\* C8: a stop whose finalized audio has fewer than 0.5 x sampleRate samples
\* returns null, and one with that many samples or more returns the container.
C8_MinimumDurationGate ==
  [][\A c \in Calls :
       (calls[c].pc = "finalize" /\ calls[c].micBuf # Null) =>
         IF pcmSamples(calls[c].micBuf) < minSamples
           THEN calls'[c].stopRes = "null"
           ELSE calls'[c].stopRes = "buffer" /\ calls'[c].out = calls[c].micBuf]_vars

\* ===================================================================
\* Claims about the end of stopRecording (checked under SpecFinalize)
\* ===================================================================

\* C7: once a stop holds a microphone container that passes the length check
\* of line 144, stopRecording returns a container whatever the system buffer
\* is and whether or not the echo/mix step throws; when it throws, the value
\* returned is the microphone container itself.  (Every container of at
\* least 0.5 s of samples passes that check.)
C7_MicRecordingIsNeverDiscarded ==
  (/\ fin.phase = "returned"
   /\ fin.microphoneBuffer # Null
   /\ BufLen(fin.microphoneBuffer) >= minBytes) =>
     /\ fin.out # Null
     /\ fin.mixThrows => fin.out = fin.microphoneBuffer
     /\ fin.systemAudioBuffer = Null => fin.out = fin.microphoneBuffer

C7_Witness ==
  /\ fin.phase = "returned"
  /\ fin.mixThrows
  /\ fin.systemAudioBuffer # Null
  /\ pcmSamples(fin.microphoneBuffer) >= minSamples
  /\ fin.out = fin.microphoneBuffer

\* C9: when exactly one of the two buffers is present, combineAudioBuffers
\* returns that buffer itself, and neither the mix nor its fallback is taken;
\* in particular a microphone container with no system buffer is returned
\* unchanged.
C9_SingleSourceIsReturnedUnchanged ==
  fin.phase \in {"combined", "returned"} =>
    /\ (fin.microphoneBuffer # Null /\ fin.systemAudioBuffer = Null) =>
          /\ fin.combinedBuffer = fin.microphoneBuffer
          /\ fin.branch = "microphone"
    /\ (fin.microphoneBuffer = Null /\ fin.systemAudioBuffer # Null) =>
          /\ fin.combinedBuffer = fin.systemAudioBuffer
          /\ fin.branch = "system"

C9_Witness ==
  /\ fin.phase = "returned"
  /\ fin.microphoneBuffer # Null
  /\ fin.systemAudioBuffer = Null
  /\ pcmSamples(fin.microphoneBuffer) = sampleRate
  /\ fin.out = fin.microphoneBuffer

\* ===================================================================
\* Claims about the mix at sample level (checked under SpecMix)
\* ===================================================================
\* a payload extended with zero samples to n samples
ZeroPadded(array, n) == [i \in 1..n |-> sampleAt(array, i)]

\* C10: for payloads of A and B samples the voice stage, the echo-cancelling
\* mixer and the plain mixer each return max(A, B) samples, and return what
\* they return for the two payloads extended with zero samples to that
\* length (so the shorter source reads as 0 past its end); the voice stage's
\* output, the mixer's output and the payload of the final container of
\* lines 369-377 have max(A, B) samples.
C10_OutputHasMaxLength ==
  mix.phase # "off" =>
    LET micArray == Int16ArrayOf(extractPcmFromWav(mix.microphoneBuffer))
        sysArray == Int16ArrayOf(extractPcmFromWav(mix.systemAudioBuffer))
        n == Max(Len(micArray), Len(sysArray))
        micPad == ZeroPadded(micArray, n)
        sysPad == ZeroPadded(sysArray, n)
        voice == applyVoiceEchoCancellation(micArray, sysArray,
                                            mix.voiceRecordingMode)
        echo == mixAudioBuffersWithEchoCancellation(
                  micArray, sysArray, mix.echoCancellationSensitivity,
                  mix.audioScenario)
        plain == mixAudioBuffers(micArray, sysArray)
    IN /\ Len(voice) = n
       /\ voice = applyVoiceEchoCancellation(micPad, sysPad,
                                             mix.voiceRecordingMode)
       /\ Len(echo) = n
       /\ echo = mixAudioBuffersWithEchoCancellation(
                   micPad, sysPad, mix.echoCancellationSensitivity,
                   mix.audioScenario)
       /\ Len(plain) = n
       /\ plain = mixAudioBuffers(micPad, sysPad)
       /\ mix.phase \in {"voiced", "mixed", "wav"} =>
            Len(Int16ArrayOf(mix.voiceProcessedPcm)) = n
       /\ mix.phase \in {"mixed", "wav"} => Len(Int16ArrayOf(mix.finalPcm)) = n
       /\ mix.phase = "wav" => wavLength(mix.finalWav) = headerSize + 2 * n

\* a mix of a short microphone payload with a longer system payload has run
\* to the final container
C10_Witness ==
  /\ mix.phase = "wav"
  /\ Len(Int16ArrayOf(extractPcmFromWav(mix.microphoneBuffer))) = 1
  /\ Len(Int16ArrayOf(extractPcmFromWav(mix.systemAudioBuffer))) = LongLen
  /\ Len(Int16ArrayOf(extractPcmFromWav(mix.finalWav))) = LongLen

InInt16(array) == \A i \in 1..Len(array) : array[i] >= int16Min /\ array[i] <= int16Max

\* C11: for every pair of input payloads (the extreme samples -32768 and
\* 32767 included) and every configuration, every sample the voice stage,
\* the echo-cancelling mixer and the plain mixer write lies in
\* [-32768, 32767]; the voice stage's payload of line 369 holds exactly the
\* samples written (none wrapped on the store), and the samples of the
\* mixed payload and of the final container are in range.
C11_OutputSamplesAreInRange ==
  mix.phase # "off" =>
    LET micArray == Int16ArrayOf(extractPcmFromWav(mix.microphoneBuffer))
        sysArray == Int16ArrayOf(extractPcmFromWav(mix.systemAudioBuffer))
    IN /\ InInt16(applyVoiceEchoCancellation(micArray, sysArray,
                                             mix.voiceRecordingMode))
       /\ InInt16(mixAudioBuffersWithEchoCancellation(
                    micArray, sysArray, mix.echoCancellationSensitivity,
                    mix.audioScenario))
       /\ InInt16(mixAudioBuffers(micArray, sysArray))
       /\ mix.phase \in {"voiced", "mixed", "wav"} =>
            Int16ArrayOf(mix.voiceProcessedPcm) =
              applyVoiceEchoCancellation(micArray, sysArray,
                                         mix.voiceRecordingMode)
       /\ InInt16(Int16ArrayOf(mix.finalPcm))
       /\ InInt16(Int16ArrayOf(extractPcmFromWav(mix.finalWav)))

\* both sources at the negative extreme, mixed to the final container
C11_Witness ==
  /\ mix.phase = "wav"
  /\ Int16ArrayOf(extractPcmFromWav(mix.microphoneBuffer)) = <<int16Min>>
  /\ Int16ArrayOf(extractPcmFromWav(mix.systemAudioBuffer)) = <<int16Min>>
  /\ Int16ArrayOf(extractPcmFromWav(mix.finalWav)) = <<int16Min>>

\* the payloads a state holds: the two inputs and the two stage outputs
StatePayloads ==
  {extractPcmFromWav(mix.microphoneBuffer),
   extractPcmFromWav(mix.systemAudioBuffer),
   mix.voiceProcessedPcm, mix.finalPcm}

\* C12: for a payload of d bytes convertPcmToWav returns 44 + d bytes whose
\* field at offset 4 is 36 + d and whose field at offset 40 is d,
\* isValidWavBuffer accepts them, and extractPcmFromWav returns the payload;
\* the final container of line 377 is that encoding of the mixed payload.
C12_ContainerRoundTrip ==
  mix.phase # "off" =>
    /\ \A pcm \in StatePayloads :
         LET wav == convertPcmToWav(pcm)
             d == Len(pcm)
         IN /\ wavLength(wav) = 44 + d
            /\ readUInt32LE(wav, 4) = 36 + d
            /\ readUInt32LE(wav, 40) = d
            /\ isValidWavBuffer(wav)
            /\ extractPcmFromWav(wav) = pcm
    /\ mix.phase = "wav" =>
         /\ wavLength(mix.finalWav) = 44 + Len(mix.finalPcm)
         /\ readUInt32LE(mix.finalWav, 4) = 36 + Len(mix.finalPcm)
         /\ readUInt32LE(mix.finalWav, 40) = Len(mix.finalPcm)
         /\ isValidWavBuffer(mix.finalWav)
         /\ extractPcmFromWav(mix.finalWav) = mix.finalPcm

\* a final container whose length fields need two bytes
C12_Witness ==
  /\ mix.phase = "wav"
  /\ Len(mix.finalPcm) = 2 * WideLen
  /\ readUInt32LE(mix.finalWav, 40) = 2 * WideLen
  /\ isValidWavBuffer(mix.finalWav)

\* ===================================================================
\* Further claims about the session controller (checked under Spec)
\* ===================================================================

MicArray == Int16ArrayOf(extractPcmFromWav(mix.microphoneBuffer))
SysArray == Int16ArrayOf(extractPcmFromWav(mix.systemAudioBuffer))
VoiceArray == Int16ArrayOf(mix.voiceProcessedPcm)

\* the parameters of a manual scenario: fixed for earphones, derived from the
\* sensitivity alone for speakers
ManualEchoParams(sensitivity, audioScenario) ==
  IF audioScenario = "earphones"
    THEN [echoThreshold |-> 8, echoReduction |-> 20, micAmplitudeThreshold |-> 90]
    ELSE LET base == sensitivityParams(sensitivity)
         IN [echoThreshold |-> 20,
             echoReduction |-> Min(base.echoReduction + 20, 80),
             micAmplitudeThreshold |-> Max(base.micAmplitudeThreshold - 10, 60)]

\* C14: with voiceRecordingMode 'headphones' or 'speakers' the voice stage
\* processes every sample with that mode's rule, and with audioScenario
\* 'earphones' or 'speakers' the echo-cancelling mixer applies that
\* scenario's parameters, whatever the samples are: the detection has no
\* say.  Checked on the functions for the state's inputs and on the payloads
\* of lines 369 and 373.
C14_ManualSettingOverridesDetection ==
  mix.phase # "off" =>
    /\ \A mode \in {"headphones", "speakers"} :
         /\ voiceScenario(MicArray, SysArray, mode) = mode
         /\ applyVoiceEchoCancellation(MicArray, SysArray, mode) =
              [i \in 1..maxLength(MicArray, SysArray) |->
                 IF mode = "headphones"
                   THEN headphonesSample(sampleAt(MicArray, i), sampleAt(SysArray, i))
                   ELSE speakersSample(sampleAt(MicArray, i), sampleAt(SysArray, i))]
    /\ \A scenario \in {"earphones", "speakers"} :
         /\ detectedScenario(MicArray, SysArray, scenario) = scenario
         /\ echoParams(MicArray, SysArray, mix.echoCancellationSensitivity, scenario)
              = ManualEchoParams(mix.echoCancellationSensitivity, scenario)
    /\ (mix.phase \in {"voiced", "mixed", "wav"} /\ mix.voiceRecordingMode # "auto") =>
         VoiceArray =
           [i \in 1..maxLength(MicArray, SysArray) |->
              IF mix.voiceRecordingMode = "headphones"
                THEN headphonesSample(sampleAt(MicArray, i), sampleAt(SysArray, i))
                ELSE speakersSample(sampleAt(MicArray, i), sampleAt(SysArray, i))]
    /\ (mix.phase \in {"mixed", "wav"} /\ enableEchoCancellation
          /\ mix.audioScenario # "auto") =>
         Int16ArrayOf(mix.finalPcm) =
           echoLoop(VoiceArray, SysArray,
                    ManualEchoParams(mix.echoCancellationSensitivity,
                                     mix.audioScenario),
                    1, maxLength(VoiceArray, SysArray), 0).mixedArray

\* both stages have run with manual values that contradict what their
\* detection reports for the same samples
C14_Witness ==
  /\ mix.phase = "wav"
  /\ enableEchoCancellation
  /\ mix.voiceRecordingMode = "headphones"
  /\ voiceScenario(MicArray, SysArray, "auto") = "speakers"
  /\ mix.audioScenario = "earphones"
  /\ detectedScenario(VoiceArray, SysArray, "auto") = "speakers"

RECURSIVE SeqSum(_)
SeqSum(array) == IF array = <<>> THEN 0 ELSE Head(array) + SeqSum(Tail(array))

IsConstant(array) == \A i \in 1..Len(array) : array[i] = array[1]

\* two varying sequences of one length (four samples or more) whose sample
\* covariance is zero
Uncorrelated(a, b) ==
  /\ Len(a) = Len(b) /\ Len(a) >= 4
  /\ ~IsConstant(a) /\ ~IsConstant(b)
  /\ Len(a) * SeqSum([i \in 1..Len(a) |-> a[i] * b[i]]) = SeqSum(a) * SeqSum(b)

\* identical sequences with every system sample above the 0.05 floor
IdenticalAboveFloor(a, b) ==
  /\ a = b /\ Len(b) > 0
  /\ \A i \in 1..Len(b) : Above(Abs(b[i]), 5)

\* C15: in auto mode the voice stage's classifier and the echo-cancelling
\* mixer's classifier report echo-absent (headphones, earphones) for an
\* uncorrelated pair of sequences, and echo-present (speakers) for two
\* identical sequences whose system samples are all above the 0.05 floor
\* (stated for the input pair of a mix that has run with both settings auto).
C15_ClassifiersSeparateNoiseFromEcho ==
  (/\ mix.phase = "wav"
   /\ mix.voiceRecordingMode = "auto" /\ mix.audioScenario = "auto") =>
    /\ Uncorrelated(MicArray, SysArray) =>
         /\ voiceScenario(MicArray, SysArray, "auto") = "headphones"
         /\ detectedScenario(MicArray, SysArray, "auto") = "earphones"
    /\ IdenticalAboveFloor(MicArray, SysArray) =>
         /\ voiceScenario(MicArray, SysArray, "auto") = "speakers"
         /\ detectedScenario(MicArray, SysArray, "auto") = "speakers"

\* lines 369-374 on sample arrays, under the state's configuration
MixOutput(micArray, sysArray) ==
  LET voice == applyVoiceEchoCancellation(micArray, sysArray,
                                          mix.voiceRecordingMode)
  IN IF enableEchoCancellation
       THEN mixAudioBuffersWithEchoCancellation(
              voice, sysArray, mix.echoCancellationSensitivity,
              mix.audioScenario)
       ELSE mixAudioBuffers(voice, sysArray)

\* a silent microphone payload as long as the state's
SilentMic == ZeroPadded(<<>>, Len(MicArray))

\* C16: when the microphone payload is shorter than the system payload, the
\* output at every index past the end of the microphone payload is what a
\* run with the same system payload and configuration but a silent
\* microphone payload of the same length gives there: in the voice stage, in
\* the echo-cancelling mixer, and in the final payload.
C16_TailDerivesFromSystemOnly ==
  (mix.phase = "wav" /\ Len(MicArray) < Len(SysArray)) =>
    LET voice == applyVoiceEchoCancellation(MicArray, SysArray,
                                            mix.voiceRecordingMode)
        voiceSilent == applyVoiceEchoCancellation(SilentMic, SysArray,
                                                  mix.voiceRecordingMode)
        echo == mixAudioBuffersWithEchoCancellation(
                  MicArray, SysArray, mix.echoCancellationSensitivity,
                  mix.audioScenario)
        echoSilent == mixAudioBuffersWithEchoCancellation(
                        SilentMic, SysArray, mix.echoCancellationSensitivity,
                        mix.audioScenario)
        final == Int16ArrayOf(mix.finalPcm)
        finalSilent == MixOutput(SilentMic, SysArray)
        tail == (Len(MicArray) + 1)..Len(SysArray)
    IN /\ [i \in tail |-> voice[i]] = [i \in tail |-> voiceSilent[i]]
       /\ [i \in tail |-> echo[i]] = [i \in tail |-> echoSilent[i]]
       /\ [i \in tail |-> final[i]] = [i \in tail |-> finalSilent[i]]

\* C17: when the microphone payload equals the system payload, with high
\* sensitivity and the speakers scenario, the final payload has as many
\* samples as the input and at every index with a non-zero microphone sample
\* its magnitude is below the microphone sample's.
C17_PureEchoIsAttenuated ==
  (/\ mix.phase = "wav"
   /\ enableEchoCancellation
   /\ mix.echoCancellationSensitivity = "high"
   /\ mix.audioScenario = "speakers"
   /\ MicArray = SysArray) =>
    LET micArray == MicArray
        final == Int16ArrayOf(mix.finalPcm)
    IN /\ Len(final) = Len(micArray)
       /\ \A i \in 1..Len(micArray) :
            micArray[i] # 0 => Abs(final[i]) < Abs(micArray[i])

\* ===================================================================
\* One stopRecording call on a recording session, with the external
\* converter in detail (SpecConv): stopRecording (112-156),
\* stopMicrophoneRecording (252-279) and convertPcmToWavWithSox (768-832)
\* with its two temporary files, its promise and the sox process
\* ===================================================================
\* conv.pc       position of stopRecording
\* conv.promise  the promise convertPcmToWavWithSox returned
\* conv.sox      the sox process: "none", "spawned", "exited" (its 'close'
\*               event is due), "spawnFailed" (its 'error' event is due),
\*               "closed" (no event is due any more)
\* conv.path     the way the promise was settled
\* conv.pcmFile, conv.wavFile   whether the temporary file exists
convInit ==
  conv = [pc |-> "stop_enter", raw |-> <<>>, micBuf |-> Null, out |-> Null,
          promise |-> "none", sox |-> "none", code |-> 0, path |-> "none",
          pcmFile |-> FALSE, wavFile |-> FALSE]

\* the sequences of at most n microphone chunks of recorder instance 1
RECURSIVE ChunkSeqs(_)
ChunkSeqs(n) ==
  IF n = 0 THEN {<<>>}
  ELSE ChunkSeqs(n - 1) \cup
       {Append(q, [src |-> "mic", inst |-> 1, len |-> k, seq |-> n]) :
          q \in {r \in ChunkSeqs(n - 1) : Len(r) = n - 1}, k \in ChunkSizes}

\* a recording session: isRecording is set; the recorder exists and has
\* delivered up to MaxChunks chunks, or does not exist (a start that has not
\* created it yet)
InitConv ==
  /\ isRecording = TRUE
  /\ recordingInstance \in {0, 1}
  /\ micRunning = {recordingInstance} \ {0}
  /\ nextInst = recordingInstance
  /\ microphoneAudioChunks \in
       IF recordingInstance = 0 THEN {<<>>} ELSE ChunkSeqs(MaxChunks)
  /\ nData = Len(microphoneAudioChunks)
  /\ systemAudioChunks = <<>>
  /\ audioChunks = <<>>
  /\ systemAudioStream \in BOOLEAN
  /\ enableSystemAudioRecording = TRUE
  /\ enableEchoCancellation = TRUE
  /\ calls = [c \in Calls |-> NoCall]
  /\ nCalls = 0
  /\ turn = 0
  /\ finPark /\ mixPark /\ platPark /\ rechPark
  /\ convInit

convUnchanged ==
  UNCHANGED <<systemAudioChunks, audioChunks, enableSystemAudioRecording,
              enableEchoCancellation, nextInst, nData, calls, nCalls, turn,
              fin, mix, plat, rech>>

\* the promise is rejected while stopMicrophoneRecording awaits it: its catch
\* (lines 275-278) returns null to stopRecording
convRejected(f, path) ==
  [f EXCEPT !.promise = "rejected", !.path = path, !.micBuf = Null,
            !.pc = "stop_sys"]

\* stopRecording, lines 113-122, with stopMicrophoneRecording (252-272) and
\* the executor of convertPcmToWavWithSox (770-798).  writeOutcome is that of
\* fs.writeFileSync(pcmFile): "ok", or a throw that leaves no file ("throws")
\* or a partial one ("throwsPartial")
convStopMicrophoneRecording(writeOutcome) ==
  /\ conv.pc = "stop_enter"
  /\ isRecording
  /\ IF recordingInstance = 0
       THEN /\ conv' = [conv EXCEPT !.pc = "stop_sys", !.micBuf = Null]
            /\ UNCHANGED <<recordingInstance, micRunning, microphoneAudioChunks>>
       ELSE /\ micRunning' = micRunning \ {recordingInstance}
            /\ recordingInstance' = 0
            /\ microphoneAudioChunks' = <<>>
            /\ conv' =
                 IF SumLen(microphoneAudioChunks) = 0
                   THEN [conv EXCEPT !.pc = "stop_sys", !.micBuf = Null]
                 ELSE IF writeOutcome # "ok"
                   THEN [convRejected(conv, "setupError") EXCEPT
                           !.pcmFile = (writeOutcome = "throwsPartial")]
                 ELSE [conv EXCEPT !.pc = "awaitConv",
                                   !.raw = microphoneAudioChunks,
                                   !.promise = "pending", !.sox = "spawned",
                                   !.pcmFile = TRUE]
  /\ UNCHANGED <<isRecording, systemAudioStream>>
  /\ convUnchanged

\* the sox process ends: with exit code 0 after writing the output file, or
\* with another code (or by a signal), having created the output file or not
soxExits(code, wroteWav) ==
  /\ conv.sox = "spawned"
  /\ code = 0 => wroteWav
  /\ conv' = [conv EXCEPT !.sox = "exited", !.code = code,
                          !.wavFile = wroteWav]
  /\ UNCHANGED <<isRecording, recordingInstance, micRunning,
                 microphoneAudioChunks, systemAudioStream>>
  /\ convUnchanged

\* the sox process could not be spawned
soxSpawnFails ==
  /\ conv.sox = "spawned"
  /\ conv' = [conv EXCEPT !.sox = "spawnFailed"]
  /\ UNCHANGED <<isRecording, recordingInstance, micRunning,
                 microphoneAudioChunks, systemAudioStream>>
  /\ convUnchanged

\* sox.on('error') (lines 823-826).  closeFollows: whether the runtime emits
\* 'close' after the 'error' (it may or may not)
soxOnError(closeFollows) ==
  /\ conv.sox = "spawnFailed"
  /\ conv' = [convRejected(conv, "spawnError") EXCEPT
                !.sox = IF closeFollows THEN "exited" ELSE "closed",
                !.code = -2]
  /\ UNCHANGED <<isRecording, recordingInstance, micRunning,
                 microphoneAudioChunks, systemAudioStream>>
  /\ convUnchanged

\* sox.on('close') (lines 799-821).  unlinkPcmThrows, readThrows and
\* unlinkWavThrows: whether the file-system call fails although its file
\* exists; a call on a file that does not exist throws in any case.  Settling
\* a promise that is already settled has no effect
soxOnClose(unlinkPcmThrows, readThrows, unlinkWavThrows) ==
  /\ conv.sox = "exited"
  /\ LET pcmGone == conv.pcmFile /\ ~unlinkPcmThrows
         readOk == conv.wavFile /\ ~readThrows
         path == IF ~pcmGone THEN "cleanupError"
                 ELSE IF conv.code # 0 THEN "nonzero"
                 ELSE IF ~readOk THEN "readFailure"
                 ELSE IF unlinkWavThrows THEN "cleanupError"
                 ELSE "success"
         files == [conv EXCEPT
                     !.sox = "closed",
                     !.pcmFile = conv.pcmFile /\ ~pcmGone,
                     !.wavFile = conv.wavFile /\ path # "success"]
     IN conv' =
          IF conv.promise # "pending" THEN files
          ELSE IF path = "success"
            THEN [files EXCEPT !.promise = "resolved", !.path = path,
                               !.micBuf = Container(conv.raw),
                               !.pc = "stop_sys"]
          ELSE convRejected(files, path)
  /\ UNCHANGED <<isRecording, recordingInstance, micRunning,
                 microphoneAudioChunks, systemAudioStream>>
  /\ convUnchanged

\* stopRecording, lines 125-127, with stopSystemAudioRecording (320-340)
convStopSystemAudioRecording ==
  /\ conv.pc = "stop_sys"
  /\ systemAudioStream' = FALSE
  /\ isRecording' = FALSE
  /\ conv' = [conv EXCEPT !.pc = "finalize"]
  /\ UNCHANGED <<recordingInstance, micRunning, microphoneAudioChunks>>
  /\ convUnchanged

\* stopRecording, lines 129-150
convFinalize ==
  /\ conv.pc = "finalize"
  /\ conv' = [conv EXCEPT !.pc = "returned",
                          !.out = StopResult(conv.micBuf, Null, FALSE)]
  /\ UNCHANGED <<isRecording, recordingInstance, micRunning,
                 microphoneAudioChunks, systemAudioStream>>
  /\ convUnchanged

WriteOutcomes == {"ok", "throws", "throwsPartial"}
ExitCodes == {0, 1, 2}

\* the steps of the program: handlers the event loop runs once they are due
NextConvProgram ==
  \/ \E w \in WriteOutcomes : convStopMicrophoneRecording(w)
  \/ \E f \in BOOLEAN : soxOnError(f)
  \/ \E u \in BOOLEAN, r \in BOOLEAN, v \in BOOLEAN : soxOnClose(u, r, v)
  \/ convStopSystemAudioRecording
  \/ convFinalize

\* the steps of the sox process
NextConvProcess ==
  \/ \E k \in ExitCodes, w \in BOOLEAN : soxExits(k, w)
  \/ soxSpawnFails

NextConv == NextConvProgram \/ NextConvProcess

SpecConv == InitConv /\ [][NextConv]_vars

\* the conversion has settled by one of: success, a non-zero exit, a spawn
\* error, a failure to read the result
SettledBy(paths) ==
  conv.pc # "off" /\ conv.promise \in {"resolved", "rejected"} /\ conv.path \in paths

\* C18: once the conversion has settled by success, by a non-zero exit, by a
\* spawn error or by a failure to read the result, neither the temporary raw
\* file nor the temporary output file exists.
C18_TemporaryFilesAreRemoved ==
  SettledBy({"success", "nonzero", "spawnError", "readFailure"}) =>
    ~conv.pcmFile /\ ~conv.wavFile

\* ===================================================================
\* PlatformAudioService and its dump process (SpecPlat): startAudioCapture
\* (185-224), stopAudioCapture (226-260), startMacOSAudioCapture (282-347),
\* stopMacOSAudioCapture (365-371), killExistingSystemAudioDump (383-410)
\* ===================================================================
MaxProcs == 2     \* dump processes spawned
MaxStops == 2     \* stopAudioCapture calls

Procs == 1..MaxProcs
Platforms == {"darwin", "win32", "linux"}

\* plat.pc              position of the startAudioCapture call in flight
\* plat.systemAudioProc the process handle held, 0 for null
\* plat.audioChunks     number of chunks held
\* plat.procs           each dump process: "none", "spawnFailed" (no pid, its
\*                      'error' event is due), "running", "exited" (its
\*                      'close' event is due), "closed"
\* plat.signals         the signals sent to each process, in order
\* plat.stopped         the processes a completed stopAudioCapture has stopped
platInit ==
  plat \in {[pc |-> "idle", platform |-> f, isCapturing |-> FALSE,
             systemAudioProc |-> 0, audioChunks |-> 0,
             procs |-> [q \in Procs |-> "none"], nProcs |-> 0,
             signals |-> [q \in Procs |-> <<>>], stopped |-> {},
             nStops |-> 0, res |-> "none"] : f \in Platforms}

platUnchanged == UNCHANGED <<svcVars, fin, mix, conv, rech>>

Alive(st) == st \in {"running"}

\* startAudioCapture, lines 185-195: up to `await checkSystemPermissions()`
platStartAudioCapture ==
  /\ plat.pc = "idle"
  /\ plat.nProcs < MaxProcs
  /\ plat' = IF plat.isCapturing
               THEN [plat EXCEPT !.res = "already"]
               ELSE [plat EXCEPT !.pc = "permissions", !.res = "none"]
  /\ platUnchanged

\* startAudioCapture, lines 195-215, once the permission check has settled.
\* Off macOS the platform start does nothing and the call returns
platPermissionsSettled(needsSetup) ==
  /\ plat.pc = "permissions"
  /\ plat' =
       IF needsSetup THEN [plat EXCEPT !.pc = "idle", !.res = "needsSetup"]
       ELSE IF plat.platform = "darwin"
         THEN [plat EXCEPT !.pc = "killExisting", !.isCapturing = TRUE,
                           !.audioChunks = 0]
       ELSE [plat EXCEPT !.pc = "idle", !.isCapturing = TRUE,
                         !.audioChunks = 0, !.res = "started"]
  /\ platUnchanged

\* startMacOSAudioCapture, lines 286-347, once killExistingSystemAudioDump has
\* settled.  pkillRan: `pkill -f SystemAudioDump` has signalled the running
\* dump processes (otherwise it failed or was cut off by the 2 s timer).
\* hasPid: the spawned process has a pid; otherwise the start throws and
\* startAudioCapture's catch (216-223) clears isCapturing
platSpawn(pkillRan, hasPid) ==
  /\ plat.pc = "killExisting"
  /\ LET q == plat.nProcs + 1
         signalled == [r \in Procs |->
                         IF pkillRan /\ Alive(plat.procs[r])
                           THEN Append(plat.signals[r], "SIGTERM")
                           ELSE plat.signals[r]]
     IN plat' = [plat EXCEPT
          !.pc = "idle",
          !.nProcs = q,
          !.signals = signalled,
          !.procs = [plat.procs EXCEPT
                       ![q] = IF hasPid THEN "running" ELSE "spawnFailed"],
          !.systemAudioProc = q,
          !.isCapturing = IF hasPid THEN plat.isCapturing ELSE FALSE,
          !.res = IF hasPid THEN "started" ELSE "failed"]
  /\ platUnchanged

\* systemAudioProc.stdout.on('data') of process q (lines 315-332), for data
\* that completes one chunk
platOnData(q) ==
  /\ plat.procs[q] = "running"
  /\ plat.audioChunks < MaxChunks
  /\ plat' = [plat EXCEPT !.audioChunks = plat.audioChunks + 1]
  /\ platUnchanged

\* dump process q ends: by itself, or because of a signal it was sent
procExits(q) ==
  /\ plat.procs[q] = "running"
  /\ plat' = [plat EXCEPT !.procs[q] = "exited"]
  /\ platUnchanged

\* systemAudioProc.on('close') of process q (lines 338-341)
platOnClose(q) ==
  /\ plat.procs[q] = "exited"
  /\ plat' = [plat EXCEPT !.procs[q] = "closed", !.systemAudioProc = 0]
  /\ platUnchanged

\* systemAudioProc.on('error') of process q (lines 343-346)
platOnError(q) ==
  /\ plat.procs[q] = "spawnFailed"
  /\ plat' = [plat EXCEPT !.procs[q] = "closed", !.systemAudioProc = 0]
  /\ platUnchanged

\* stopAudioCapture (lines 226-260) with stopMacOSAudioCapture (365-371): the
\* call has no await that waits for anything, so it is one step
platStopAudioCapture ==
  /\ plat.nStops < MaxStops
  /\ plat' =
       IF ~plat.isCapturing THEN [plat EXCEPT !.nStops = plat.nStops + 1]
       ELSE LET q == plat.systemAudioProc
                signal == plat.platform = "darwin" /\ q # 0
            IN [plat EXCEPT
                  !.nStops = plat.nStops + 1,
                  !.signals = IF signal
                                THEN [plat.signals EXCEPT
                                        ![q] = Append(plat.signals[q], "SIGTERM")]
                                ELSE plat.signals,
                  !.stopped = IF signal THEN plat.stopped \cup {q}
                              ELSE plat.stopped,
                  !.systemAudioProc = IF signal THEN 0 ELSE q,
                  !.isCapturing = FALSE,
                  !.audioChunks = 0]
  /\ platUnchanged

InitPlat == svcInit /\ finPark /\ mixPark /\ convPark /\ platInit /\ rechPark

NextPlat ==
  \/ platStartAudioCapture
  \/ \E n \in BOOLEAN : platPermissionsSettled(n)
  \/ \E k \in BOOLEAN, h \in BOOLEAN : platSpawn(k, h)
  \/ \E q \in Procs : platOnData(q)
  \/ \E q \in Procs : procExits(q)
  \/ \E q \in Procs : platOnClose(q)
  \/ \E q \in Procs : platOnError(q)
  \/ platStopAudioCapture

SpecPlat == InitPlat /\ [][NextPlat]_vars

\* C19: stopping the dump-process backend sends the graceful signal and, when
\* the process has not ended within a bounded wait, force-kills it: every
\* process a completed stop has stopped was sent the graceful signal and has
\* ended.
C19_StoppedProcessHasTerminated ==
  plat.pc # "off" =>
    \A q \in plat.stopped :
      /\ plat.signals[q] # <<>>
      /\ ~Alive(plat.procs[q])

\* ===================================================================
\* SpecConv with the event loop's scheduling (SpecConvLive): a handler that
\* is due is eventually run.  Nothing in the program bounds the time the sox
\* process takes, so its steps carry no fairness condition
\* ===================================================================
SpecConvLive == InitConv /\ [][NextConv]_vars /\ WF_vars(NextConvProgram)

\* C20: every stopRecording call on a recording session eventually returns,
\* and when it has returned isRecording is false.
C20_StopEventuallyReturnsIdle ==
  (conv.pc = "stop_enter" /\ isRecording) ~> (conv.pc = "returned" /\ ~isRecording)

\* ===================================================================
\* The controller with chunks in flight (SpecLate): recordingInstance.stop()
\* (line 259) ends the recorder's process, and what the process had already
\* written to its output stream is still delivered to the 'data' listener
\* ===================================================================
\* recorder instance i was started and has been stopped
Stopped(i) ==
  /\ i \notin micRunning
  /\ \E c \in Calls : calls[c].made = i /\ calls[c].res = "ok"

\* a chunk of n bytes from the stopped recorder instance i
MicDataInFlight(i, n) == Stopped(i) /\ onData(i, n)

NextLate ==
  \/ Next
  \/ \E i \in Insts, n \in ChunkSizes : MicDataInFlight(i, n)

SpecLate == Init /\ [][NextLate]_vars

\* the recorder instance whose chunks a payload holds
InstancesOf(payload) == {payload[k].inst : k \in 1..Len(payload)}

ChunksOf(payload) == {payload[k] : k \in 1..Len(payload)}

\* C21: while a stop waits after its stop signal, the chunks of the stopped
\* recorder that have arrived and been accumulated are part of the payload
\* the stop finalizes.
C21_ChunksInFlightAreIncluded ==
  \A c \in Calls :
    calls[c].pc = "conv" =>
      \A k \in 1..Len(microphoneAudioChunks) :
        (/\ Stopped(microphoneAudioChunks[k].inst)
         /\ microphoneAudioChunks[k].inst \in InstancesOf(calls[c].raw)) =>
          microphoneAudioChunks[k] \in ChunksOf(calls[c].raw)

\* C22: with echo cancellation disabled and both sources present, the final
\* payload is the plain normalized mix of the microphone payload and the
\* system payload: no microphone sample has been attenuated.
C22_DisabledMeansPlainMix ==
  (mix.phase = "wav" /\ ~enableEchoCancellation) =>
    Int16ArrayOf(mix.finalPcm) = mixAudioBuffers(MicArray, SysArray)

\* the chunks of a payload are in the order of their delivery, none twice
InArrivalOrder(payload) ==
  \A j, k \in 1..Len(payload) : j < k => payload[j].seq < payload[k].seq

\* C23: the payload a stop finalizes holds the chunks accumulated in the
\* session in the order of their arrival, none twice, and leaves none behind:
\* once the session is over (isRecording false) no chunk of a stopped recorder
\* is held in the accumulation buffer outside the finalized payload.
C23_PayloadIsTheAccumulatedChunks ==
  /\ \A c \in Calls :
       /\ InArrivalOrder(calls[c].raw)
       /\ calls[c].micBuf # Null => InArrivalOrder(calls[c].micBuf.payload)
  /\ ~isRecording =>
       \A k \in 1..Len(microphoneAudioChunks) :
         ~Stopped(microphoneAudioChunks[k].inst)

\* ===================================================================
\* The handlers that cut a stream into fixed-size chunks (SpecChunk): the
\* stdout 'data' listener of the dump process (part_002, 306-332) and the
\* onaudioprocess callbacks of the renderer (platformAudioCapture.ts,
\* setupMicProcessing and setupSystemAudioProcessing)
\* ===================================================================
MaxWrites == 3    \* data events of one stream

\* the configuration of PlatformAudioService (part_002, lines 51-58)
SAMPLE_RATE == 24000
configBitsPerSample == 16
CHANNELS == 1
BYTES_PER_SAMPLE == configBitsPerSample \div 8
\* SAMPLE_RATE * BYTES_PER_SAMPLE * CHANNELS * CHUNK_DURATION, with
\* CHUNK_DURATION = 0.1: 4800 bytes
CHUNK_SIZE == (SAMPLE_RATE * BYTES_PER_SAMPLE * CHANNELS) \div 10
\* the renderer: SAMPLE_RATE * AUDIO_CHUNK_DURATION = 24000 * 0.1 samples
samplesPerChunk == SAMPLE_RATE \div 10
BUFFER_SIZE == 4096

\* Data is a sequence of segments [from, len] of the stream it came from:
\* the bytes (or samples) number from, from + 1, ..., from + len - 1 of all
\* that the stream delivered
RECURSIVE SegLen(_)
SegLen(d) == IF d = <<>> THEN 0 ELSE Head(d).len + SegLen(Tail(d))

\* buffer.slice(0, n) / array.splice(0, n): the first n elements
RECURSIVE sliceTo(_, _)
sliceTo(d, n) ==
  IF n = 0 \/ d = <<>> THEN <<>>
  ELSE IF Head(d).len <= n
    THEN <<Head(d)>> \o sliceTo(Tail(d), n - Head(d).len)
  ELSE <<[from |-> Head(d).from, len |-> n]>>

\* buffer.slice(n): what follows the first n elements
RECURSIVE sliceFrom(_, _)
sliceFrom(d, n) ==
  IF n = 0 \/ d = <<>> THEN d
  ELSE IF Head(d).len <= n THEN sliceFrom(Tail(d), n - Head(d).len)
  ELSE <<[from |-> Head(d).from + n, len |-> Head(d).len - n]>> \o Tail(d)

\* a handler that emits at most one chunk per event
chunkLoop_Once(buffer, chunks, size) ==
  IF SegLen(buffer) >= size
    THEN [audioBuffer |-> sliceFrom(buffer, size),
          audioChunks |-> Append(chunks, sliceTo(buffer, size))]
    ELSE [audioBuffer |-> buffer, audioChunks |-> chunks]

\* while (audioBuffer.length >= CHUNK_SIZE) { chunk = audioBuffer.slice(0,
\* CHUNK_SIZE); audioBuffer = audioBuffer.slice(CHUNK_SIZE); push(chunk) }
\* (part_002 318-331; the renderer's loops have splice(0, samplesPerChunk))
RECURSIVE chunkLoop(_, _, _)
chunkLoop(buffer, chunks, size) ==
  IF SegLen(buffer) >= size
    THEN chunkLoop(sliceFrom(buffer, size),
                   Append(chunks, sliceTo(buffer, size)), size)
    ELSE [audioBuffer |-> buffer, audioChunks |-> chunks]

\* the size of the chunks of a handler: bytes for the dump process, samples
\* for the renderer
chunkSizeOf(kind) == IF kind = "dump" THEN CHUNK_SIZE ELSE samplesPerChunk

StreamKinds == {"dump", "mic", "system"}

\* sizes of the writes of the dump process, in bytes
WriteSizes == {1, CHUNK_SIZE - 1, CHUNK_SIZE, CHUNK_SIZE + 1, 2 * CHUNK_SIZE, 12000}

rechInit ==
  rech \in {[kind |-> k, audioBuffer |-> <<>>, audioChunks |-> <<>>,
             received |-> 0, nWrites |-> 0] : k \in StreamKinds}

\* one event of n new elements: they are appended to audioBuffer (line 316;
\* audioBuffer.push(...inputData) in the renderer) and the loop runs
received(n) ==
  LET appended == IF n = 0 THEN rech.audioBuffer
                  ELSE Append(rech.audioBuffer, [from |-> rech.received, len |-> n])
      after == chunkLoop(appended, rech.audioChunks, chunkSizeOf(rech.kind))
  IN rech' = [rech EXCEPT !.audioBuffer = after.audioBuffer,
                          !.audioChunks = after.audioChunks,
                          !.received = rech.received + n,
                          !.nWrites = rech.nWrites + 1]

\* systemAudioProc.stdout.on('data') (part_002, lines 315-332)
onStdoutData(n) ==
  /\ rech.kind = "dump"
  /\ rech.nWrites < MaxWrites
  /\ received(n)
  /\ UNCHANGED <<svcVars, fin, mix, conv, plat>>

\* micProcessor.onaudioprocess and systemProcessor.onaudioprocess: the
\* script processor delivers BUFFER_SIZE samples per callback
onaudioprocess ==
  /\ rech.kind \in {"mic", "system"}
  /\ rech.nWrites < MaxWrites
  /\ received(BUFFER_SIZE)
  /\ UNCHANGED <<svcVars, fin, mix, conv, plat>>

InitChunk == svcInit /\ finPark /\ mixPark /\ convPark /\ platPark /\ rechInit

NextChunk ==
  \/ \E n \in WriteSizes : onStdoutData(n)
  \/ onaudioprocess

SpecChunk == InitChunk /\ [][NextChunk]_vars

\* the concatenation of a sequence of chunks
RECURSIVE Concat(_)
Concat(chunks) == IF chunks = <<>> THEN <<>> ELSE Head(chunks) \o Concat(Tail(chunks))

\* d is the elements number from, from + 1, ... of the stream, in order
RECURSIVE InStreamOrder(_, _)
InStreamOrder(d, from) ==
  d = <<>> \/ (/\ Head(d).from = from
               /\ Head(d).len > 0
               /\ InStreamOrder(Tail(d), from + Head(d).len))

\* C24: every emitted chunk has exactly the chunk size, the emitted chunks
\* followed by what is buffered are the received data in order (so the
\* emitted chunks are a prefix of it), and less than one chunk is buffered
\* after each event.
C24_ChunksAreFixedSizePrefix ==
  rech.kind # "off" =>
    /\ \A k \in 1..Len(rech.audioChunks) :
         SegLen(rech.audioChunks[k]) = chunkSizeOf(rech.kind)
    /\ InStreamOrder(Concat(rech.audioChunks) \o rech.audioBuffer, 0)
    /\ SegLen(Concat(rech.audioChunks)) + SegLen(rech.audioBuffer) = rech.received
    /\ SegLen(rech.audioBuffer) < chunkSizeOf(rech.kind)

\* three writes of the dump process have produced two chunks or more, one of
\* them put together from two writes, and a rest is buffered
C24_Witness ==
  /\ rech.kind = "dump"
  /\ rech.nWrites = 3
  /\ Len(rech.audioChunks) >= 2
  /\ \E k \in 1..Len(rech.audioChunks) : Len(rech.audioChunks[k]) >= 2
  /\ rech.audioBuffer # <<>>

\* the samples of the echo-cancelling mixer's run in the state that it
\* flags as potential echo (lines 521-525)
FlaggedIn(micArray, sysArray, p) ==
  [i \in 1..maxLength(micArray, sysArray) |->
     potentialEcho(sampleAt(micArray, i), sampleAt(sysArray, i), p)]

\* index i and the 49 indices before it are all flagged
RunOfMinimum(flagged, i) ==
  /\ i >= minConsecutiveEcho
  /\ \A j \in (i - minConsecutiveEcho + 1)..i : flagged[j]

\* C25: the echo-cancelling mixer attenuates the sample at an index exactly
\* when that sample and the 49 before it are all flagged as potential echo,
\* every other sample is mixed without reduction, and the echo-sample count
\* is the number of attenuated samples, at most the number of samples.
C25_AttenuationNeedsFiftyConsecutive ==
  (mix.phase = "wav" /\ enableEchoCancellation) =>
    LET voice == VoiceArray
        sys == SysArray
        p == echoParams(voice, sys, mix.echoCancellationSensitivity, mix.audioScenario)
        flagged == FlaggedIn(voice, sys, p)
        final == Int16ArrayOf(mix.finalPcm)
        run == echoCancellationRun(voice, sys, mix.echoCancellationSensitivity,
                                   mix.audioScenario)
        attenuated == {i \in 1..Len(final) : RunOfMinimum(flagged, i)}
    IN /\ Len(final) = maxLength(voice, sys)
       /\ \A i \in 1..Len(final) :
            final[i] = IF i \in attenuated
                         THEN reducedSample(sampleAt(voice, i), sampleAt(sys, i), p)
                         ELSE unreducedSample(sampleAt(voice, i), sampleAt(sys, i))
       /\ run.totalEchoSamples = Cardinality(attenuated)
       /\ run.totalEchoSamples <= Len(final)

\* a run of 30 flagged samples that was interrupted and left unattenuated,
\* followed by a run long enough to be attenuated from its 50th sample on
C25_Witness ==
  /\ mix.phase = "wav" /\ enableEchoCancellation
  /\ MicArray = BrokenRun
  /\ LET p == echoParams(VoiceArray, SysArray, mix.echoCancellationSensitivity,
                         mix.audioScenario)
         flagged == FlaggedIn(VoiceArray, SysArray, p)
         final == Int16ArrayOf(mix.finalPcm)
     IN /\ \A i \in 1..30 : flagged[i]
        /\ ~flagged[31]
        /\ final[30] = unreducedSample(VoiceArray[30], SysArray[30])
        /\ final[81] # unreducedSample(VoiceArray[81], SysArray[81])
        /\ final[80] = unreducedSample(VoiceArray[80], SysArray[80])

\* no start or stop call is in progress
NoCallInProgress == \A c \in Calls : calls[c].pc \in {"idle", "done"}

\* C26: whenever no start or stop call is in progress, a running recorder
\* implies that isRecording is true.
C26_RunningRecorderImpliesRecording ==
  (NoCallInProgress /\ micRunning # {}) => isRecording

\* C27: once a session has its recorder, the accumulation buffer holds no
\* chunk of a recorder that an earlier session started and stopped.
C27_NoChunkOfAnEarlierRecorder ==
  recordingInstance # 0 =>
    \A k \in 1..Len(microphoneAudioChunks) :
      ~Stopped(microphoneAudioChunks[k].inst)

\* the most recently spawned dump process, when it is still running and no
\* stop has signalled it
Newest(q) ==
  /\ q = plat.nProcs
  /\ Alive(plat.procs[q])
  /\ q \notin plat.stopped

\* C28: in the dump-process backend the stored handle refers to the most
\* recently spawned process that has not been stopped, whatever events of
\* earlier processes have been handled since, so that a stop can signal it.
C28_HandleIsTheNewestProcess ==
  \A q \in Procs : Newest(q) => plat.systemAudioProc = q

\* the captured chunks a call holds: the payload its stopMicrophoneRecording
\* took from the accumulation buffer, the container made of it, and the
\* container its stopRecording returned
PayloadOf(b) == IF b = Null THEN {} ELSE ChunksOf(b.payload)
HeldBy(c) ==
  ChunksOf(calls[c].raw) \cup PayloadOf(calls[c].micBuf) \cup PayloadOf(calls[c].out)

IsMicrophoneContainer(b) ==
  /\ b = Container(b.payload)
  /\ \A k \in 1..Len(b.payload) : b.payload[k].src = "mic"

====
